---- MODULE Spec2Model ----
(***************************************************************************)
(* A model of the sa-visualizer alignment scorer (js/alignment-scorer.js)  *)
(* and of the page script that drives it (js/index.js).                    *)
(*                                                                         *)
(* Representation.                                                         *)
(*   - A JavaScript string is a sequence of one-character strings.         *)
(*   - Every JavaScript number that can carry a fraction (the scoring      *)
(*     parameters, score, identity, similarity, conservation, the          *)
(*     averages) is a fixed-point integer counted in hundredths: 2 is 200, *)
(*     -0.5 is -50, 75.00 is 7500.  Counters (matches, gaps, ...) are      *)
(*     plain integers.                                                     *)
(*   - A value produced by a division is a record [k, v]: k = "num" with   *)
(*     v in hundredths, k = "NaN" (0/0), or k = "Infinity" (x/0, v the     *)
(*     sign).                                                              *)
(***************************************************************************)
EXTENDS Integers, Sequences, FiniteSets, TLC

VARIABLES
    scorer,     \* the AlignmentScorer instance's four parameter fields
    req,        \* the call being made on the scorer: operation and arguments
    res,        \* what the call returned or threw (NoResult before it ran)
    hist,       \* history of the configuration calls on the scorer
    selected,   \* index.js: the file last passed to loadAllAlignments
    cards,      \* index.js: per model, what its card's viewer and report show
    viewers,    \* index.js: the global viewers object
    pending,    \* index.js: the $.get requests still in flight
    loads       \* index.js: number of loadAllAlignments calls that built cards

vars == <<scorer, req, res, hist, selected, cards, viewers, pending, loads>>

\* ------------------------------------------------------------------ bounds

\* Longest FASTA text parsed, in characters.
MaxText == 8

\* Longest sequence handed to calculatePairwiseScore, in columns.
MaxLen == 3

\* Most records handed to calculateMSAStats.
MaxRecords == 4

\* Most cells (records x columns) of an alignment handed to calculateMSAStats.
MaxCells == 8

\* Most loadAllAlignments calls on the page, the initial one included.
MaxLoads == 3

\* Most operations made on one scorer when its configuration is followed.
MaxCalls == 2

\* ----------------------------------------------------------------- strings

NL == "\n"

WhiteSpace == {" ", "\t", "\r", NL}

TextChars == {">", "A", " ", NL}

SeqChars == {"A", "a", "C", "-"}

StringsOver(alphabet, n) == UNION {[1..k -> alphabet] : k \in 0..n}

StringsOfLen(alphabet, n) == [1..n -> alphabet]

toUpperCase(c) == CASE c = "a" -> "A" [] c = "c" -> "C" [] OTHER -> c

RECURSIVE trimStart(_)
trimStart(s) ==
    IF Len(s) > 0 /\ Head(s) \in WhiteSpace THEN trimStart(Tail(s)) ELSE s

RECURSIVE trimEnd(_)
trimEnd(s) ==
    IF Len(s) > 0 /\ s[Len(s)] \in WhiteSpace
    THEN trimEnd(SubSeq(s, 1, Len(s) - 1))
    ELSE s

trim(s) == trimEnd(trimStart(s))

startsWith(s, c) == Len(s) > 0 /\ s[1] = c

RECURSIVE split(_)
split(s) ==
    IF \A i \in 1..Len(s) : s[i] # NL
    THEN <<s>>
    ELSE LET k == CHOOSE i \in 1..Len(s) :
                      s[i] = NL /\ \A j \in 1..(i - 1) : s[j] # NL
         IN  <<SubSeq(s, 1, k - 1)>> \o split(SubSeq(s, k + 1, Len(s)))

\* ------------------------------------------------------------- parseFASTA

\* The loop state is [sequences, currentSeq]; currentSeq is <<>> for null and
\* a one-element sequence holding the record otherwise.
ParseStart == [sequences |-> <<>>, currentSeq |-> <<>>]

parseLineNoFinalize(st, rawLine) ==
    LET line == trim(rawLine) IN
    IF startsWith(line, ">")
    THEN [sequences  |-> st.sequences,
          currentSeq |-> <<[id |-> Tail(line), sequence |-> <<>>]>>]
    ELSE IF Len(line) > 0 /\ Len(st.currentSeq) > 0
    THEN [st EXCEPT !.currentSeq =
              <<[@[1] EXCEPT !.sequence = @ \o line]>>]
    ELSE st

parseLine(st, rawLine) ==
    LET line == trim(rawLine) IN
    IF startsWith(line, ">")
    THEN [sequences  |-> IF Len(st.currentSeq) > 0
                         THEN st.sequences \o st.currentSeq
                         ELSE st.sequences,
          currentSeq |-> <<[id |-> Tail(line), sequence |-> <<>>]>>]
    ELSE IF Len(line) > 0 /\ Len(st.currentSeq) > 0
    THEN [st EXCEPT !.currentSeq =
              <<[@[1] EXCEPT !.sequence = @ \o line]>>]
    ELSE st

RECURSIVE parseLines(_, _)
parseLines(st, lines) ==
    IF lines = <<>> THEN st
    ELSE parseLines(parseLine(st, Head(lines)), Tail(lines))

parseFASTA(fastaContent) ==
    LET st == parseLines(ParseStart, split(fastaContent)) IN
    IF Len(st.currentSeq) > 0
    THEN st.sequences \o st.currentSeq
    ELSE st.sequences

\* ------------------------------------------------------------ call results

NoResult == [k |-> "none"]

Returned(v) == [k |-> "ok", value |-> v]

Thrown(msg) == [k |-> "error", message |-> msg]

NoRequest == [op |-> "none"]

NoHist == [op |-> "none"]

\* ---------------------------------------------------------------- numbers

Num(v) == [k |-> "num", v |-> v]

NaN == [k |-> "NaN", v |-> 0]

Infinity(sign) == [k |-> "Infinity", v |-> sign]

\* a / b rounded to the nearest integer, halves away from zero (b > 0): what
\* toFixed(2) followed by parseFloat leaves of a quotient counted in hundredths.
roundDiv(a, b) ==
    IF a >= 0 THEN (2 * a + b) \div (2 * b)
    ELSE -((2 * (-a) + b) \div (2 * b))

\* parseFloat(((num / den) * 100).toFixed(2)) for integers num, den >= 0.
percent(num, den) ==
    IF den = 0
    THEN (IF num = 0 THEN NaN ELSE Infinity(IF num > 0 THEN 1 ELSE -1))
    ELSE Num(roundDiv(num * 10000, den))

\* JavaScript + on two numbers.
add(x, y) ==
    CASE x.k = "NaN" \/ y.k = "NaN" -> NaN
      [] x.k = "Infinity" /\ y.k = "Infinity" ->
             (IF x.v = y.v THEN x ELSE NaN)
      [] x.k = "Infinity" -> x
      [] y.k = "Infinity" -> y
      [] OTHER -> Num(x.v + y.v)

\* parseFloat((x / n).toFixed(2)) for a number x and an integer n >= 0.
meanOf(x, n) ==
    IF x.k # "num" THEN x
    ELSE IF n = 0
    THEN (IF x.v = 0 THEN NaN ELSE Infinity(IF x.v > 0 THEN 1 ELSE -1))
    ELSE Num(roundDiv(x.v, n))

\* JavaScript x >= n for a number x and an integer literal n.
greaterOrEqual(x, n) ==
    CASE x.k = "NaN" -> FALSE
      [] x.k = "Infinity" -> x.v > 0
      [] OTHER -> x.v >= n * 100

\* ------------------------------------------------- calculatePairwiseScore

\* The constructor's defaults 2, -1, -2 and -0.5, in hundredths.
MatchScoreDefault == 200

MismatchScoreDefault == -100

GapPenaltyDefault == -200

GapExtensionPenaltyDefault == -50

\* constructor()
NewScorer ==
    [matchScore          |-> MatchScoreDefault,
     mismatchScore       |-> MismatchScoreDefault,
     gapPenalty          |-> GapPenaltyDefault,
     gapExtensionPenalty |-> GapExtensionPenaltyDefault]

LengthMismatchPair == "Sequences must be of equal length for alignment scoring"

ScanStart ==
    [matches |-> 0, mismatches |-> 0, gaps |-> 0, score |-> 0,
     gapRuns |-> 0, inGap |-> FALSE]

\* A variant of the loop body that never leaves the in-gap state.
scoreColumnNoReset(sc, st, raw1, raw2) ==
    LET char1 == toUpperCase(raw1)
        char2 == toUpperCase(raw2)
    IN  IF char1 = "-" \/ char2 = "-"
        THEN IF ~st.inGap
             THEN [st EXCEPT !.gaps = @ + 1, !.score = @ + sc.gapPenalty,
                             !.gapRuns = @ + 1, !.inGap = TRUE]
             ELSE [st EXCEPT !.gaps = @ + 1,
                             !.score = @ + sc.gapExtensionPenalty]
        ELSE IF char1 = char2
             THEN [st EXCEPT !.matches = @ + 1,
                             !.score = @ + sc.matchScore]
             ELSE [st EXCEPT !.mismatches = @ + 1,
                             !.score = @ + sc.mismatchScore]

\* One iteration of the for loop over the columns.
scoreColumn(sc, st, raw1, raw2) ==
    LET char1 == toUpperCase(raw1)
        char2 == toUpperCase(raw2)
    IN  IF char1 = "-" \/ char2 = "-"
        THEN IF ~st.inGap
             THEN [st EXCEPT !.gaps = @ + 1, !.score = @ + sc.gapPenalty,
                             !.gapRuns = @ + 1, !.inGap = TRUE]
             ELSE [st EXCEPT !.gaps = @ + 1,
                             !.score = @ + sc.gapExtensionPenalty]
        ELSE IF char1 = char2
             THEN [st EXCEPT !.inGap = FALSE, !.matches = @ + 1,
                             !.score = @ + sc.matchScore]
             ELSE [st EXCEPT !.inGap = FALSE, !.mismatches = @ + 1,
                             !.score = @ + sc.mismatchScore]

RECURSIVE scanColumns(_, _, _, _, _)
scanColumns(sc, seq1, seq2, i, st) ==
    IF i > Len(seq1) THEN st
    ELSE scanColumns(sc, seq1, seq2, i + 1,
             scoreColumn(sc, st, seq1[i], seq2[i]))

calculatePairwiseScore(sc, seq1, seq2) ==
    IF Len(seq1) # Len(seq2) THEN Thrown(LengthMismatchPair)
    ELSE LET st == scanColumns(sc, seq1, seq2, 1, ScanStart) IN
         Returned(
           [score      |-> st.score,
            matches    |-> st.matches,
            mismatches |-> st.mismatches,
            gaps       |-> st.gaps,
            gapRuns    |-> st.gapRuns,
            identity   |-> percent(st.matches,
                                   st.matches + st.mismatches + st.gaps),
            similarity |-> percent(st.matches, Len(seq1) - st.gaps),
            length     |-> Len(seq1)])

\* ------------------------------------------------------ calculateMSAStats

MinimumSequences == "Need at least 2 sequences for MSA scoring"

LengthMismatchMSA == "All sequences must be same length in MSA"

\* What JavaScript throws on undefined.toUpperCase(), a read past a string's end.
TypeErrorUndefined == "Cannot read properties of undefined (reading 'toUpperCase')"

\* A variant of the length check that accepts every alignment.
allSameLengthUnchecked(sequences, alignmentLength) == TRUE

\* The for loop that compares every record's length with the first one's.
allSameLength(sequences, alignmentLength) ==
    \A i \in 1..Len(sequences) : Len(sequences[i].sequence) = alignmentLength

\* A variant of the column test that also rejects a column holding a gap.
isConservedNoGaps(sequences, pos) ==
    LET chars == [i \in 1..Len(sequences) |->
                      toUpperCase(sequences[i].sequence[pos])]
        uniqueChars == {chars[i] : i \in 1..Len(sequences)}
    IN  Cardinality(uniqueChars) = 1 /\ "-" \notin uniqueChars

\* The body of the conservation loop for column pos (1-based here).
isConserved(sequences, pos) ==
    LET chars == [i \in 1..Len(sequences) |->
                      toUpperCase(sequences[i].sequence[pos])]
        uniqueChars == {chars[i] : i \in {j \in 1..Len(sequences) : chars[j] # "-"}}
    IN  Cardinality(uniqueChars) = 1 /\ "-" \notin uniqueChars

\* The conservation loop: [conservedPositions, columns examined, error].
RECURSIVE conservationLoop(_, _, _, _)
conservationLoop(sequences, alignmentLength, pos, acc) ==
    IF pos > alignmentLength THEN acc
    ELSE IF \E i \in 1..Len(sequences) : Len(sequences[i].sequence) < pos
    THEN [acc EXCEPT !.columns = @ + 1, !.error = <<TypeErrorUndefined>>]
    ELSE conservationLoop(sequences, alignmentLength, pos + 1,
             [acc EXCEPT !.columns = @ + 1,
                         !.conservedPositions =
                             IF isConserved(sequences, pos) THEN @ + 1 ELSE @])

\* A variant of the pair loops whose inner loop runs downwards.
RECURSIVE pairLoopDescending(_, _, _, _, _)
pairLoopDescending(sc, sequences, i, j, acc) ==
    LET n == Len(sequences) IN
    IF i > n THEN acc
    ELSE IF j <= i THEN pairLoopDescending(sc, sequences, i + 1, n, acc)
    ELSE LET r == calculatePairwiseScore(sc, sequences[i].sequence,
                                         sequences[j].sequence)
         IN  IF r.k = "error"
             THEN [acc EXCEPT !.calls = Append(@, <<i, j>>),
                              !.error = <<r.message>>]
             ELSE pairLoopDescending(sc, sequences, i, j - 1,
                      [acc EXCEPT !.calls = Append(@, <<i, j>>),
                                  !.pairwiseScores = Append(@, r.value),
                                  !.totalScore = @ + r.value.score])

\* The nested pair loops, entered at (i, j); indices are 1-based here.  calls
\* lists the index pairs the Pairwise Scorer was invoked on, in order.
RECURSIVE pairLoop(_, _, _, _, _)
pairLoop(sc, sequences, i, j, acc) ==
    LET n == Len(sequences) IN
    IF i > n THEN acc
    ELSE IF j > n THEN pairLoop(sc, sequences, i + 1, i + 2, acc)
    ELSE LET r == calculatePairwiseScore(sc, sequences[i].sequence,
                                         sequences[j].sequence)
         IN  IF r.k = "error"
             THEN [acc EXCEPT !.calls = Append(@, <<i, j>>),
                              !.error = <<r.message>>]
             ELSE pairLoop(sc, sequences, i, j + 1,
                      [acc EXCEPT !.calls = Append(@, <<i, j>>),
                                  !.pairwiseScores = Append(@, r.value),
                                  !.totalScore = @ + r.value.score])

allPairs(sc, sequences) ==
    pairLoop(sc, sequences, 1, 2,
             [pairwiseScores |-> <<>>, totalScore |-> 0, calls |-> <<>>,
              error |-> <<>>])

RECURSIVE sumIdentity(_)
sumIdentity(pairwiseScores) ==
    IF pairwiseScores = <<>> THEN Num(0)
    ELSE add(sumIdentity(SubSeq(pairwiseScores, 1, Len(pairwiseScores) - 1)),
             pairwiseScores[Len(pairwiseScores)].identity)

\* The outcome of a run of calculateMSAStats: k = "ok" with the MSAStats in
\* value, or k = "error" with the thrown message; columns and calls record the
\* columns examined and the Pairwise Scorer invocations made on the way.
calculateMSAStats(sc, sequences) ==
    IF Len(sequences) < 2
    THEN [k |-> "error", message |-> MinimumSequences,
          columns |-> 0, calls |-> <<>>]
    ELSE
    LET alignmentLength == Len(sequences[1].sequence)
        numSequences == Len(sequences)
    IN
    IF ~allSameLength(sequences, alignmentLength)
    THEN [k |-> "error", message |-> LengthMismatchMSA,
          columns |-> 0, calls |-> <<>>]
    ELSE
    LET cons == conservationLoop(sequences, alignmentLength, 1,
                    [conservedPositions |-> 0, columns |-> 0, error |-> <<>>])
    IN
    IF cons.error # <<>>
    THEN [k |-> "error", message |-> cons.error[1],
          columns |-> cons.columns, calls |-> <<>>]
    ELSE
    LET pairs == allPairs(sc, sequences) IN
    IF pairs.error # <<>>
    THEN [k |-> "error", message |-> pairs.error[1],
          columns |-> cons.columns, calls |-> pairs.calls]
    ELSE
    [k |-> "ok",
     value |->
       [numSequences       |-> numSequences,
        alignmentLength    |-> alignmentLength,
        conservedPositions |-> cons.conservedPositions,
        conservation       |-> percent(cons.conservedPositions, alignmentLength),
        averageScore       |-> meanOf(Num(pairs.totalScore),
                                      Len(pairs.pairwiseScores)),
        averageIdentity    |-> meanOf(sumIdentity(pairs.pairwiseScores),
                                      Len(pairs.pairwiseScores)),
        pairwiseScores     |-> pairs.pairwiseScores,
        totalPairs         |-> Len(pairs.pairwiseScores)],
     columns |-> cons.columns,
     calls |-> pairs.calls]

\* ------------------------------------------------ classification and report

Green == "#28a745"

Yellow == "#ffc107"

Orange == "#fd7e14"

Red == "#dc3545"

\* A variant of the colour ladder whose first threshold is exclusive.
getQualityColorExclusive(identity) ==
    IF identity.k = "num" /\ identity.v > 8000 THEN Green
    ELSE IF greaterOrEqual(identity, 60) THEN Yellow
    ELSE IF greaterOrEqual(identity, 40) THEN Orange
    ELSE Red

getQualityColor(identity) ==
    IF greaterOrEqual(identity, 80) THEN Green
    ELSE IF greaterOrEqual(identity, 60) THEN Yellow
    ELSE IF greaterOrEqual(identity, 40) THEN Orange
    ELSE Red

getQualityLabel(identity) ==
    IF greaterOrEqual(identity, 80) THEN "Excellent"
    ELSE IF greaterOrEqual(identity, 60) THEN "Good"
    ELSE IF greaterOrEqual(identity, 40) THEN "Fair"
    ELSE "Poor"

\* The report, as the values the template interpolates into the markup.
generateHTMLReport(stats) ==
    [numSequences       |-> stats.numSequences,
     alignmentLength    |-> stats.alignmentLength,
     conservedPositions |-> stats.conservedPositions,
     conservation       |-> stats.conservation,
     averageScore       |-> stats.averageScore,
     averageIdentity    |-> stats.averageIdentity,
     totalPairs         |-> stats.totalPairs,
     color              |-> getQualityColor(stats.averageIdentity),
     label              |-> getQualityLabel(stats.averageIdentity)]

\* ------------------------------------------------------------ setParameters

Fields == {"matchScore", "mismatchScore", "gapPenalty", "gapExtensionPenalty"}

\* A variant that rebuilds the parameters from the defaults on every call.
setParametersFromDefaults(sc, params) ==
    [f \in Fields |-> IF f \in DOMAIN params THEN params[f] ELSE NewScorer[f]]

\* params holds the fields whose value is not undefined.
setParameters(sc, params) ==
    [matchScore |->
        IF "matchScore" \in DOMAIN params THEN params.matchScore
        ELSE sc.matchScore,
     mismatchScore |->
        IF "mismatchScore" \in DOMAIN params THEN params.mismatchScore
        ELSE sc.mismatchScore,
     gapPenalty |->
        IF "gapPenalty" \in DOMAIN params THEN params.gapPenalty
        ELSE sc.gapPenalty,
     gapExtensionPenalty |->
        IF "gapExtensionPenalty" \in DOMAIN params THEN params.gapExtensionPenalty
        ELSE sc.gapExtensionPenalty]

\* State of the page script while only the scorer is exercised.
PageIdle ==
    /\ selected = ""
    /\ cards = <<>>
    /\ viewers = <<>>
    /\ pending = {}
    /\ loads = 0

pageVars == <<selected, cards, viewers, pending, loads>>

\* ------------------------------------------------------------ sample inputs

FastaGood == <<">", "A", NL, "A", "C", "-", NL, ">", "C", NL, "a", "C", "A">>

FastaAllGap == <<">", "A", NL, "-", "-", NL, ">", "C", NL, "-", "-">>

FastaNoColumns == <<">", "A", NL, ">", "C">>

FastaSingle == <<">", "A", NL, "A", "C">>

FastaRagged == <<">", "A", NL, "A", "C", NL, ">", "C", NL, "A">>

SampleTexts == {FastaGood, FastaAllGap, FastaNoColumns, FastaSingle, FastaRagged}

\* Parameter settings a scorer can be brought to by setParameters.
ParamSettings ==
    {NewScorer,
     [matchScore |-> 300, mismatchScore |-> -200, gapPenalty |-> -700,
      gapExtensionPenalty |-> -100]}

ParamValues == {100, -300}

ParamArgs == UNION {[D -> ParamValues] : D \in SUBSET Fields}

\* ---------------------------------------------------- specification: parse

InitParse ==
    /\ scorer = NewScorer
    /\ hist = NoHist
    /\ req \in {[op |-> "parseFASTA", text |-> t] :
                    t \in StringsOver(TextChars, MaxText)}
    /\ res = NoResult
    /\ PageIdle

ParseFASTACall ==
    /\ req.op = "parseFASTA"
    /\ res = NoResult
    /\ res' = Returned(parseFASTA(req.text))
    /\ UNCHANGED <<scorer, req, hist, pageVars>>

SpecParse == InitParse /\ [][ParseFASTACall]_vars

\* ------------------------------------------------- specification: pairwise

InitPairwise ==
    /\ scorer \in ParamSettings
    /\ hist = NoHist
    /\ req \in {[op |-> "calculatePairwiseScore", seq1 |-> a, seq2 |-> b] :
                    a \in StringsOver(SeqChars, MaxLen),
                    b \in StringsOver(SeqChars, MaxLen)}
    /\ res = NoResult
    /\ PageIdle

CalculatePairwiseScoreCall ==
    /\ req.op = "calculatePairwiseScore"
    /\ res = NoResult
    /\ res' = calculatePairwiseScore(scorer, req.seq1, req.seq2)
    /\ UNCHANGED <<scorer, req, hist, pageVars>>

SpecPairwise == InitPairwise /\ [][CalculatePairwiseScoreCall]_vars

\* ------------------------------------------------ specification: aggregate

\* Alignments of n records by l columns, and the same with one record (cut)
\* a character short.
Alignment(m, n, l, cut) ==
    [i \in 1..n |->
        [id |-> <<"s">>,
         sequence |-> IF i = cut /\ l > 0 THEN SubSeq(m[i], 1, l - 1) ELSE m[i]]]

InitMSA ==
    /\ scorer = NewScorer
    /\ hist = NoHist
    /\ \E n \in 0..MaxRecords, l \in 0..MaxCells :
          /\ n * l <= MaxCells
          /\ \E m \in [1..n -> StringsOfLen(SeqChars, l)], cut \in 0..n :
                req = [op |-> "calculateMSAStats",
                       sequences |-> Alignment(m, n, l, cut)]
    /\ res = NoResult
    /\ PageIdle

CalculateMSAStatsCall ==
    /\ req.op = "calculateMSAStats"
    /\ res = NoResult
    /\ res' = calculateMSAStats(scorer, req.sequences)
    /\ UNCHANGED <<scorer, req, hist, pageVars>>

GenerateHTMLReportCall ==
    /\ req.op = "calculateMSAStats"
    /\ res.k = "ok"
    /\ req' = [op |-> "generateHTMLReport", stats |-> res.value]
    /\ res' = Returned(generateHTMLReport(res.value))
    /\ UNCHANGED <<scorer, hist, pageVars>>

NextMSA == CalculateMSAStatsCall \/ GenerateHTMLReportCall

SpecMSA == InitMSA /\ [][NextMSA]_vars

\* ------------------------------------------------- specification: classify

Percentages == {Num(v) : v \in 0..10000}

InitClassify ==
    /\ scorer = NewScorer
    /\ hist = NoHist
    /\ req \in {[op |-> "classify", identity |-> x] : x \in Percentages}
    /\ res = [k |-> "classify", color |-> "", label |-> ""]
    /\ PageIdle

GetQualityColorCall ==
    /\ req.op = "classify"
    /\ res.color = ""
    /\ res' = [res EXCEPT !.color = getQualityColor(req.identity)]
    /\ UNCHANGED <<scorer, req, hist, pageVars>>

GetQualityLabelCall ==
    /\ req.op = "classify"
    /\ res.label = ""
    /\ res' = [res EXCEPT !.label = getQualityLabel(req.identity)]
    /\ UNCHANGED <<scorer, req, hist, pageVars>>

NextClassify == GetQualityColorCall \/ GetQualityLabelCall

SpecClassify == InitClassify /\ [][NextClassify]_vars

\* -------------------------------------------- specification: configuration

\* hist: the last operation on the scorer (op, and arg for setParameters),
\* the parameters before it ran (before), for each field the value most
\* recently supplied to setParameters (supplied), and the number of
\* operations so far (n).
InitParams ==
    /\ scorer = NewScorer
    /\ hist = [op |-> "constructor", arg |-> <<>>, before |-> NewScorer,
               supplied |-> <<>>, n |-> 0]
    /\ req = NoRequest
    /\ res = NoResult
    /\ PageIdle

Ran(op) ==
    [hist EXCEPT !.op = op, !.arg = <<>>, !.before = scorer, !.n = @ + 1]

SetParametersCall ==
    /\ hist.n < MaxCalls
    /\ \E params \in ParamArgs :
          /\ scorer' = setParameters(scorer, params)
          /\ req' = [op |-> "setParameters", params |-> params]
          /\ hist' = [op |-> "setParameters", arg |-> params,
                      before |-> scorer,
                      supplied |->
                          [f \in DOMAIN hist.supplied \cup DOMAIN params |->
                              IF f \in DOMAIN params THEN params[f]
                              ELSE hist.supplied[f]],
                      n |-> hist.n + 1]
    /\ res' = NoResult
    /\ UNCHANGED pageVars

ParseOp ==
    /\ hist.n < MaxCalls
    /\ \E text \in SampleTexts :
          /\ req' = [op |-> "parseFASTA", text |-> text]
          /\ res' = Returned(parseFASTA(text))
    /\ hist' = Ran("parseFASTA")
    /\ UNCHANGED <<scorer, pageVars>>

ScoreOp ==
    /\ hist.n < MaxCalls
    /\ \E text \in SampleTexts :
          LET sequences == parseFASTA(text) IN
          /\ Len(sequences) >= 2
          /\ req' = [op |-> "calculatePairwiseScore",
                     seq1 |-> sequences[1].sequence,
                     seq2 |-> sequences[2].sequence]
          /\ res' = calculatePairwiseScore(scorer, sequences[1].sequence,
                                           sequences[2].sequence)
    /\ hist' = Ran("calculatePairwiseScore")
    /\ UNCHANGED <<scorer, pageVars>>

AggregateOp ==
    /\ hist.n < MaxCalls
    /\ \E text \in SampleTexts :
          /\ req' = [op |-> "calculateMSAStats", sequences |-> parseFASTA(text)]
          /\ res' = calculateMSAStats(scorer, parseFASTA(text))
    /\ hist' = Ran("calculateMSAStats")
    /\ UNCHANGED <<scorer, pageVars>>

ClassifyOp ==
    /\ hist.n < MaxCalls
    /\ \E v \in {0, 4000, 6000, 8000, 10000} :
          /\ req' = [op |-> "classify", identity |-> Num(v)]
          /\ res' = [k |-> "classify", color |-> getQualityColor(Num(v)),
                     label |-> getQualityLabel(Num(v))]
    /\ hist' = Ran("classify")
    /\ UNCHANGED <<scorer, pageVars>>

NextParams ==
    \/ SetParametersCall
    \/ ParseOp
    \/ ScoreOp
    \/ AggregateOp
    \/ ClassifyOp

SpecParams == InitParams /\ [][NextParams]_vars

\* ------------------------------------------------------ the page: index.js

Models == {"EdgeAlign", "MLP", "XGBoost", "NeedlemanWunsch"}

\* alignmentFiles[0] and alignmentFiles[1]
File1 == "NC_002018_NC_002019.aln"

File2 == "NC_002017_NC_002022.aln"

Files == {File1, File2}

Found(text) == [found |-> TRUE, fasta |-> text]

NotFound == [found |-> FALSE, fasta |-> <<>>]

\* What the server holds under data/<model>/<file>.
Server(model, file) ==
    CASE model = "EdgeAlign" /\ file = File1 -> Found(FastaGood)
      [] model = "EdgeAlign" /\ file = File2 -> NotFound
      [] model = "MLP" /\ file = File1 -> Found(FastaAllGap)
      [] model = "MLP" /\ file = File2 -> Found(FastaGood)
      [] model = "XGBoost" /\ file = File1 -> NotFound
      [] model = "XGBoost" /\ file = File2 -> Found(FastaSingle)
      [] model = "NeedlemanWunsch" /\ file = File1 -> Found(FastaRagged)
      [] OTHER -> Found(FastaNoColumns)

\* What an element shows.  file names the file of the request that wrote it.
Loading(file) == [kind |-> "loading", file |-> file]

Unavailable(file) == [kind |-> "unavailable", file |-> file]

MSAView(file, fasta) == [kind |-> "msa", file |-> file, fasta |-> fasta]

EmptyReport == [kind |-> "empty"]

StatsReport(file, html) == [kind |-> "stats", file |-> file, html |-> html]

ErrorReport(file, message) ==
    [kind |-> "error", file |-> file, message |-> message]

NoViewer == [kind |-> "none"]

\* The try block of the $.get success callback and its catch: the report
\* written for fasta, fetched for file.
scoreReport(file, fasta) ==
    LET sequences == parseFASTA(fasta)
        run == calculateMSAStats(NewScorer, sequences)
    IN  IF run.k = "ok"
        THEN StatsReport(file, generateHTMLReport(run.value))
        ELSE ErrorReport(file, run.message)

\* loadAllAlignments(file): the cards of all models are rebuilt, the viewers
\* object is reset and one request per model is sent.
loadAllAlignments(file) ==
    IF file = ""
    THEN UNCHANGED <<selected, cards, viewers, pending, loads>>
    ELSE /\ selected' = file
         /\ cards' = [m \in Models |->
                         [viewer |-> Loading(file), report |-> EmptyReport]]
         /\ viewers' = [m \in Models |-> NoViewer]
         /\ pending' = pending \cup
                {[model |-> m, file |-> file, load |-> loads + 1] : m \in Models}
         /\ loads' = loads + 1

\* The page once $(document).ready has run: the first file is loading.
InitPage ==
    /\ scorer = NewScorer
    /\ hist = NoHist
    /\ req = NoRequest
    /\ res = NoResult
    /\ selected = File1
    /\ cards = [m \in Models |->
                   [viewer |-> Loading(File1), report |-> EmptyReport]]
    /\ viewers = [m \in Models |-> NoViewer]
    /\ pending = {[model |-> m, file |-> File1, load |-> 1] : m \in Models}
    /\ loads = 1

\* The change handler of #file-select.
FileSelectChange ==
    /\ loads < MaxLoads
    /\ \E file \in Files \ {selected} : loadAllAlignments(file)
    /\ UNCHANGED <<scorer, req, res, hist>>

\* The success callback of $.get for request r.  The elements are looked up
\* by the model's name, so they are those of the cards now on the page.
\* MSABrowser and MSAProcessor are library code: the viewer is taken to be
\* built and to render the fasta it was given.
GetSuccess ==
    \E r \in pending :
        /\ Server(r.model, r.file).found
        /\ LET fasta == Server(r.model, r.file).fasta IN
           /\ cards' = [cards EXCEPT ![r.model] =
                           [viewer |-> MSAView(r.file, fasta),
                            report |-> scoreReport(r.file, fasta)]]
           /\ viewers' = [viewers EXCEPT ![r.model] = MSAView(r.file, fasta)]
        /\ pending' = pending \ {r}
        /\ UNCHANGED <<scorer, req, res, hist, selected, loads>>

\* The fail callback of $.get for request r.
GetFail ==
    \E r \in pending :
        /\ ~Server(r.model, r.file).found
        /\ cards' = [cards EXCEPT ![r.model].viewer = Unavailable(r.file)]
        /\ pending' = pending \ {r}
        /\ UNCHANGED <<scorer, req, res, hist, selected, viewers, loads>>

NextPage == FileSelectChange \/ GetSuccess \/ GetFail

SpecPage == InitPage /\ [][NextPage]_vars

\* ============================================================ the claims

\* ---- C7 (parseFASTA)

removeWhitespace(s) == SelectSeq(s, LAMBDA c : c \notin WhiteSpace)

\* How a sequence line is cleaned: of all its whitespace, or of the whitespace
\* around it.
Clean(how, s) == IF how = "all" THEN removeWhitespace(s) ELSE trim(s)

RECURSIVE ConcatLines(_, _, _, _)
ConcatLines(lines, from, to, how) ==
    IF from > to THEN <<>>
    ELSE Clean(how, lines[from]) \o ConcatLines(lines, from + 1, to, how)

\* The records the description promises for text: one per header line, in
\* order, each with the header's remainder as id and the cleaned lines up to
\* the next header as sequence.
RecordsOf(text, how) ==
    LET lines == split(text)
        H == {i \in 1..Len(lines) : startsWith(trim(lines[i]), ">")}
        nth(k) == CHOOSE i \in H : Cardinality({j \in H : j < i}) = k - 1
        last(k) == IF k < Cardinality(H) THEN nth(k + 1) - 1 ELSE Len(lines)
    IN  [k \in 1..Cardinality(H) |->
            [id |-> Tail(trim(lines[nth(k)])),
             sequence |-> ConcatLines(lines, nth(k) + 1, last(k), how)]]

Parsed == req.op = "parseFASTA" /\ res.k = "ok"

\* C7, as stated: parseFASTA returns one record per header line, in input
\* order, with the header's remainder as id and, as sequence, the following
\* non-header lines concatenated with all whitespace removed.
C7_ParseRemovesAllWhitespace ==
    Parsed => res.value = RecordsOf(req.text, "all")

\* C7, amended: parseFASTA returns one record per header line, in input order,
\* with the trimmed header's remainder as id and, as sequence, the following
\* non-header lines concatenated after trimming each line's leading and
\* trailing whitespace (whitespace inside a line is kept); lines before the
\* first header are dropped, and a text without header gives the empty list.
C7_ParseTrimsEachLine ==
    Parsed =>
        /\ res.value = RecordsOf(req.text, "around")
        /\ (\A i \in 1..Len(req.text) : req.text[i] # ">") => res.value = <<>>

\* A parse whose first record kept a blank inside its sequence, after a
\* discarded leading line.
C7_Witness ==
    /\ Parsed
    /\ req.text = <<"A", NL, ">", NL, "A", " ", "A">>
    /\ res.value = <<[id |-> <<>>, sequence |-> <<"A", " ", "A">>]>>

\* ---- C1 (calculatePairwiseScore)

Scored == req.op = "calculatePairwiseScore" /\ res.k # "none"

GapColumns(a, b) ==
    {i \in 1..Len(a) : toUpperCase(a[i]) = "-" \/ toUpperCase(b[i]) = "-"}

\* C1: on equal-length sequences calculatePairwiseScore returns gaps = the
\* number of columns with a gap in either sequence, gapRuns = the number of
\* maximal runs of such columns, matches / mismatches = the number of non-gap
\* columns whose upper-cased characters are equal / unequal, and score =
\* matchScore*matches + mismatchScore*mismatches + gapPenalty*gapRuns +
\* gapExtensionPenalty*(gaps - gapRuns).
C1_PairwiseScoreIsColumnCount ==
    (Scored /\ Len(req.seq1) = Len(req.seq2)) =>
        LET a == req.seq1
            b == req.seq2
            G == GapColumns(a, b)
            R == {i \in G : i = 1 \/ (i - 1) \notin G}
            M == {i \in (1..Len(a)) \ G : toUpperCase(a[i]) = toUpperCase(b[i])}
            X == ((1..Len(a)) \ G) \ M
        IN  /\ res.k = "ok"
            /\ res.value.gaps = Cardinality(G)
            /\ res.value.gapRuns = Cardinality(R)
            /\ res.value.matches = Cardinality(M)
            /\ res.value.mismatches = Cardinality(X)
            /\ res.value.score =
                   scorer.matchScore * Cardinality(M)
                   + scorer.mismatchScore * Cardinality(X)
                   + scorer.gapPenalty * Cardinality(R)
                   + scorer.gapExtensionPenalty * (Cardinality(G) - Cardinality(R))

\* A scored pair with one gap run that moves from one sequence to the other,
\* then a match equal up to case, under non-default parameters.
C1_Witness ==
    /\ Scored
    /\ scorer.gapPenalty = -700
    /\ req.seq1 = <<"-", "A", "a">>
    /\ req.seq2 = <<"C", "-", "A">>
    /\ res.k = "ok"
    /\ res.value.gaps = 2
    /\ res.value.gapRuns = 1
    /\ res.value.matches = 1
    /\ res.value.score = -500

\* ---- C3, C4, C5, C2 (calculateMSAStats)

Aggregated == req.op = "calculateMSAStats" /\ res.k # "none"

Uniform(S) == \A i, j \in 1..Len(S) : Len(S[i].sequence) = Len(S[j].sequence)

\* C3: calculateMSAStats throws MinimumSequences on fewer than 2 records and
\* LengthMismatch on records of differing length, in both cases before any
\* column is examined and before the Pairwise Scorer is invoked, and without
\* producing an MSAStats.
C3_PreconditionsCheckedUpFront ==
    Aggregated =>
        LET S == req.sequences IN
        /\ Len(S) < 2 =>
              /\ res.k = "error" /\ res.message = MinimumSequences
              /\ res.columns = 0 /\ res.calls = <<>>
        /\ (Len(S) >= 2 /\ ~Uniform(S)) =>
              /\ res.k = "error" /\ res.message = LengthMismatchMSA
              /\ res.columns = 0 /\ res.calls = <<>>

\* A LengthMismatch failure on three records whose first two agree in length
\* (a per-pair check would have scored that pair first).
C3_Witness ==
    /\ Aggregated
    /\ Len(req.sequences) = 3
    /\ Len(req.sequences[1].sequence) = 2
    /\ Len(req.sequences[2].sequence) = 2
    /\ Len(req.sequences[3].sequence) = 1
    /\ res.k = "error"
    /\ res.message = LengthMismatchMSA

PairsOf(n) == {p \in (1..n) \X (1..n) : p[1] < p[2]}

\* The position of pair p in ascending (i, j) order.
RankOf(p, n) ==
    1 + Cardinality({q \in PairsOf(n) :
                        q[1] < p[1] \/ (q[1] = p[1] /\ q[2] < p[2])})

\* C4: on N >= 2 equal-length records calculateMSAStats invokes the Pairwise
\* Scorer exactly once per index pair i < j, in ascending (i, j) order, and
\* pairwiseScores holds those results in that order, with totalPairs =
\* Len(pairwiseScores) = N*(N-1)/2.
C4_PairsInAscendingOrder ==
    (Aggregated /\ Len(req.sequences) >= 2 /\ Uniform(req.sequences)) =>
        LET S == req.sequences
            n == Len(S)
        IN  /\ res.k = "ok"
            /\ Len(res.calls) = (n * (n - 1)) \div 2
            /\ res.value.totalPairs = (n * (n - 1)) \div 2
            /\ Len(res.value.pairwiseScores) = res.value.totalPairs
            /\ \A p \in PairsOf(n) :
                  /\ res.calls[RankOf(p, n)] = p
                  /\ Returned(res.value.pairwiseScores[RankOf(p, n)]) =
                         calculatePairwiseScore(scorer, S[p[1]].sequence,
                                                S[p[2]].sequence)

\* Four records, six pairs, whose scores tell the pairs apart.
C4_Witness ==
    /\ Aggregated
    /\ res.k = "ok"
    /\ Len(req.sequences) = 4
    /\ res.value.totalPairs = 6
    /\ res.calls = <<<<1, 2>>, <<1, 3>>, <<1, 4>>, <<2, 3>>, <<2, 4>>, <<3, 4>>>>
    /\ res.value.pairwiseScores[1].matches = 1
    /\ res.value.pairwiseScores[2].mismatches = 1
    /\ res.value.pairwiseScores[6].gaps = 1

\* The distinct upper-cased non-gap characters of column p.
ColumnLetters(S, p) ==
    {toUpperCase(S[i].sequence[p]) : i \in 1..Len(S)} \ {"-"}

\* C5: conservedPositions is the number of columns whose set of distinct
\* upper-cased non-gap characters has exactly one member (so a gap-free
\* column equal up to case counts, an all-gap column does not, and a column
\* of gaps plus one repeated character counts).
C5_ConservedColumns ==
    (Aggregated /\ res.k = "ok") =>
        LET S == req.sequences IN
        res.value.conservedPositions =
            Cardinality({p \in 1..res.value.alignmentLength :
                            Cardinality(ColumnLetters(S, p)) = 1})

\* Three records of two columns: the first column holds A, a gap and a, and
\* is counted; the second is all gaps and is not.
C5_Witness ==
    /\ Aggregated
    /\ res.k = "ok"
    /\ Len(req.sequences) = 3
    /\ req.sequences[1].sequence = <<"A", "-">>
    /\ req.sequences[2].sequence = <<"-", "-">>
    /\ req.sequences[3].sequence = <<"a", "-">>
    /\ res.value.conservedPositions = 1

Tiers == {"Excellent", "Good", "Fair", "Poor"}

\* C2: a metric whose denominator is zero is surfaced as the not-a-number
\* sentinel in the PairwiseScore, in the MSAStats and in the report, and the
\* report derives no ordinary quality tier from it.
C2_UndefinedMetricNeverOrdinary ==
    /\ Aggregated /\ res.k = "ok" =>
          /\ \A i \in 1..Len(res.value.pairwiseScores) :
                LET ps == res.value.pairwiseScores[i] IN
                /\ ps.matches + ps.mismatches + ps.gaps = 0 => ps.identity = NaN
                /\ ps.length - ps.gaps = 0 => ps.similarity = NaN
          /\ res.value.alignmentLength = 0 => res.value.conservation = NaN
          /\ (\E i \in 1..Len(res.value.pairwiseScores) :
                 res.value.pairwiseScores[i].identity = NaN)
                => res.value.averageIdentity = NaN
    /\ (req.op = "generateHTMLReport" /\ res.k = "ok") =>
          /\ res.value.averageIdentity = req.stats.averageIdentity
          /\ req.stats.averageIdentity = NaN => res.value.label \notin Tiers

\* ---- C8 (setParameters)

\* C8: each parameter equals the value most recently supplied for it, or its
\* default (2, -1, -2, -0.5) if none was; a setParameters call changes
\* exactly the fields it supplies; parse, score, aggregate and classify
\* change none.
C8_ParametersFollowSupplied ==
    hist.op # "none" =>
        /\ \A f \in Fields :
              scorer[f] = IF f \in DOMAIN hist.supplied THEN hist.supplied[f]
                          ELSE CASE f = "matchScore" -> 200
                                 [] f = "mismatchScore" -> -100
                                 [] f = "gapPenalty" -> -200
                                 [] f = "gapExtensionPenalty" -> -50
        /\ hist.op = "setParameters" =>
              \A f \in Fields :
                  scorer[f] = IF f \in DOMAIN hist.arg THEN hist.arg[f]
                              ELSE hist.before[f]
        /\ hist.op \notin {"setParameters", "constructor"} =>
              scorer = hist.before

\* A second setParameters call that left alone a field the first call set and
\* a field that was never set.
C8_Witness ==
    /\ hist.op = "setParameters"
    /\ hist.n = 2
    /\ DOMAIN hist.arg = {"mismatchScore"}
    /\ DOMAIN hist.supplied = {"matchScore", "mismatchScore"}
    /\ scorer.matchScore = -300
    /\ scorer.mismatchScore = 100
    /\ scorer.gapPenalty = -200

\* ---- C9 (getQualityColor, getQualityLabel)

\* C9: every percentage gets exactly one tier, >= 80 Excellent (green),
\* >= 60 Good (yellow), >= 40 Fair (orange), else Poor (red); the label and
\* the colour computed for the same input denote the same tier.
C9_TiersByThreshold ==
    req.op = "classify" =>
        LET v == req.identity.v
            tier == IF v >= 8000 THEN <<"Excellent", "#28a745">>
                    ELSE IF v >= 6000 THEN <<"Good", "#ffc107">>
                    ELSE IF v >= 4000 THEN <<"Fair", "#fd7e14">>
                    ELSE <<"Poor", "#dc3545">>
        IN  /\ res.label # "" => res.label = tier[1]
            /\ res.color # "" => res.color = tier[2]

\* The boundary 80.00 classified both ways: Excellent and green.
C9_Witness ==
    /\ req.op = "classify"
    /\ req.identity = Num(8000)
    /\ res.label = "Excellent"
    /\ res.color = "#28a745"

\* ---- C6, C10 (loadAllAlignments and the $.get callbacks)

Arrived(m) == [model |-> m, file |-> selected, load |-> loads] \notin pending

UndefinedMetric(stats) ==
    \/ stats.averageIdentity = NaN
    \/ stats.conservation = NaN

\* C6: once the response for a model's job (the selected file x that model)
\* has arrived, the model's card shows that job's own outcome, whatever
\* happens to the other jobs and in whatever order the responses arrive: the
\* not-available notice if the fetch failed, else the job's viewer with a
\* failure report if scoring threw (LengthMismatch, MinimumSequences) and
\* with the job's statistics otherwise; a job with an undefined metric shows
\* a report of its own, be it a failure report or its statistics.
C6_UnitsOfWorkIsolated ==
    selected # "" =>
    \A m \in Models :
        Arrived(m) =>
            LET got == Server(m, selected)
                run == calculateMSAStats(NewScorer, parseFASTA(got.fasta))
            IN  IF ~got.found
                THEN cards[m].viewer = Unavailable(selected)
                ELSE /\ cards[m].viewer = MSAView(selected, got.fasta)
                     /\ viewers[m] = MSAView(selected, got.fasta)
                     /\ IF run.k = "error"
                        THEN cards[m].report = ErrorReport(selected, run.message)
                        ELSE IF UndefinedMetric(run.value)
                        THEN /\ cards[m].report.kind \in {"error", "stats"}
                             /\ cards[m].report.file = selected
                        ELSE cards[m].report =
                                 StatsReport(selected, generateHTMLReport(run.value))

\* C10: whatever the order of the responses, what a model's card and its
\* viewers entry show was written for the selected file: a late response for
\* a file selected earlier never replaces it.
C10_CardsShowSelectedFile ==
    selected # "" =>
    \A m \in Models :
        /\ cards[m].viewer.file = selected
        /\ cards[m].report.kind # "empty" => cards[m].report.file = selected
        /\ viewers[m].kind # "none" => viewers[m].file = selected

====
